---- MODULE Spec2Model ----
(***************************************************************************)
(* Model of the GOES-16 fog-product pipeline (viniroger/fog_product):      *)
(*   helpers/utilities.py  Utilities.download_CMI, get_ds, proj_ret        *)
(*   fog_product.py        dual-band script (band 13 minus band 7)         *)
(*   plot_map.py           single-band script                              *)
(* Angles are in hundredths of a degree, so the 0.02-degree cell is 2.     *)
(* Calibration values are integers.                                        *)
(***************************************************************************)
EXTENDS Integers, Sequences, FiniteSets, TLC

VARIABLES
    bucket,     \* objects published in the S3 bucket under the scene prefixes
    files,      \* local input directory: file name -> "none" | "old" | "new"
    dirs,       \* directories that exist locally
    listCalls,  \* number of list_objects_v2 requests sent so far
    transfers,  \* object -> number of download_file requests sent so far
    last,       \* record of the most recent download_CMI call
    rets,       \* band -> set of values download_CMI has returned for it
    ncalls,     \* number of download_CMI calls made
    scene,      \* band -> content of that band's scene file (metadata, raster)
    rdarg,      \* arguments of the get_ds call: [file_name, k]
    rd,         \* result of the most recent get_ds call
    parg,       \* arguments of the proj_ret call: [img, undef, ds, extent, file_name]
    pr,         \* effect of the most recent proj_ret call
    pc,         \* position of the running script
    py          \* module-level variables of the running script

fetchVars == <<bucket, files, dirs, listCalls, transfers, last, rets, ncalls>>
readVars == <<scene, rdarg, rd>>
projVars == <<parg, pr>>
pipeVars == <<pc, py>>
vars == <<bucket, files, dirs, listCalls, transfers, last, rets, ncalls,
          scene, rdarg, rd, parg, pr, pc, py>>

-----------------------------------------------------------------------------
(* Bounds of the model *)

MaxObjs == 2
MaxCalls == 3
MaxCells == 4
MaxPipeCells == 2

-----------------------------------------------------------------------------
(* Fetcher: Utilities.download_CMI *)

Bands == {7, 13}

Sentinel == -1

\* The two-digit channel tag of the key, f'C{int(band):02.0f}'
ChanTag(band) == <<"C", band \div 10, band % 10>>

\* An object key split on '/': the directory segments, and the last segment
\* split on '.' (stem, extension). start distinguishes scenes of one minute.
Key(band, start) ==
    [dirs |-> <<"ABI-L2-CMIPF", "2021", "188", "10">>,
     file |-> <<[chan |-> ChanTag(band), start |-> start], "nc">>]

Objects == {Key(b, s) : b \in Bands, s \in 1..MaxObjs}

\* The key prefix of (timestamp, band): product/year/day/hour/OR_product-M6Cbb_G16_sYYYYDDDHHMM
Prefix(band) ==
    [dirs |-> <<"ABI-L2-CMIPF", "2021", "188", "10">>, chan |-> ChanTag(band)]

Matches(key, prefix) ==
    key.dirs = prefix.dirs /\ key.file[1].chan = prefix.chan

RECURSIVE SortKeys(_)
\* S3 lists the matching keys in ascending key order
SortKeys(S) ==
    IF S = {} THEN <<>>
    ELSE LET k == CHOOSE x \in S : \A y \in S : x.file[1].start <= y.file[1].start
         IN <<k>> \o SortKeys(S \ {k})

\* s3_result['Contents'] of list_objects_v2(Bucket, Prefix, Delimiter='/')
Listing(bkt, band) == SortKeys({o \in bkt : Matches(o, Prefix(band))})

NoContentsNever(listing) == FALSE

\* 'Contents' not in s3_result
NoContents(listing) == listing = <<>>

\* key.split('/')[-1].split('.')[0]
FileName(key) == Head(key.file)

FileNames == {FileName(o) : o \in Objects}

ExistsNever(fs, name) == FALSE

\* os.path.exists(f'{path_dest}/{file_name}.nc')
Exists(fs, name) == fs[name] # "none"

RECURSIVE FetchLoop(_, _, _)
\* for obj in s3_result['Contents']: download the object unless its file exists.
\* acc = [files, moved, printed, file_name]
FetchLoop(listing, i, acc) ==
    IF i > Len(listing) THEN acc
    ELSE LET key == listing[i]
             file_name == FileName(key)
         IN IF Exists(acc.files, file_name)
            THEN FetchLoop(listing, i + 1,
                     [acc EXCEPT !.printed = Append(@, <<"File exists", file_name>>),
                                 !.file_name = <<file_name>>])
            ELSE FetchLoop(listing, i + 1,
                     [acc EXCEPT !.files = [@ EXCEPT ![file_name] = "new"],
                                 !.moved = Append(@, key),
                                 !.printed = Append(@, <<"Downloading file", file_name>>),
                                 !.file_name = <<file_name>>])

\* The whole of download_CMI(yyyymmddhhmn, band, path_dest) on the bucket bkt
\* and the local files fs: what it returns, prints, transfers and leaves on disk.
\* ret.kind is "int" for the sentinel, "str" for a base name, "NameError" when
\* file_name was never bound.
download_CMI(band, bkt, fs) ==
    LET listing == Listing(bkt, band)
    IN IF NoContents(listing)
       THEN [ret |-> [kind |-> "int", val |-> Sentinel],
             files |-> fs, moved |-> <<>>, lists |-> 1,
             printed |-> << <<"No files found", band>> >>]
       ELSE LET acc == FetchLoop(listing, 1,
                         [files |-> fs, moved |-> <<>>, printed |-> <<>>,
                          file_name |-> <<>>])
            IN [ret |-> IF acc.file_name = <<>>
                        THEN [kind |-> "NameError", val |-> 0]
                        ELSE [kind |-> "str", val |-> acc.file_name[1]],
                files |-> acc.files, moved |-> acc.moved, lists |-> 1,
                printed |-> acc.printed]

Range(s) == {s[i] : i \in 1..Len(s)}

Count(s, x) == Cardinality({i \in 1..Len(s) : s[i] = x})

NoCall == [band |-> 0]

\* The effect of a call download_CMI('202107071000', band, 'input') on the
\* environment, with the record kept of it
Fetch(band) ==
    LET r == download_CMI(band, bucket, files)
    IN /\ files' = r.files
       /\ dirs' = dirs \cup {"input"}
       /\ listCalls' = listCalls + r.lists
       /\ transfers' = [o \in Objects |-> transfers[o] + Count(r.moved, o)]
       /\ last' = [band |-> band, pre |-> files, lists |-> r.lists,
                   moved |-> r.moved, ret |-> r.ret, printed |-> r.printed]
       /\ rets' = [rets EXCEPT ![band] = @ \cup {r.ret}]
       /\ ncalls' = ncalls + 1
       /\ UNCHANGED bucket

\* One call Utilities.download_CMI('202107071000', band, 'input')
Download(band) ==
    /\ ncalls < MaxCalls
    /\ Fetch(band)
    /\ UNCHANGED <<readVars, projVars, pipeVars>>

-----------------------------------------------------------------------------
(* Reader/Calibrator: Utilities.get_ds *)

\* A 2D array: shape = <<rows, columns>>, at[<<r, c>>] its elements
Cells(shape) == (1..shape[1]) \X (1..shape[2])

Shapes(n) == {s \in (1..n) \X (1..n) : s[1] * s[2] <= n}

Grids(n, vals) ==
    UNION {[shape : {s}, at : [Cells(s) -> vals]] : s \in Shapes(n)}

NoGrid == [shape |-> <<0, 0>>, at |-> <<>>]

MetaAttrs == {"scale_factor", "add_offset", "_FillValue", "time_coverage_start"}

RawVals == {0, 3}
ScaleVals == {-1, 1, 2}
OffsetVals == {0, 5}
KVals == {0, -273}

\* The content of a scene file: the metadata attributes it carries, their
\* values, and the stored samples (RasterYSize rows of RasterXSize columns)
Scenes(n, presents, scales, offsets, fills) ==
    [present : presents, scale : scales, offset : offsets, fill : fills,
     time : {"2021-07-07T10:00:20.5Z"}, raw : Grids(n, RawVals)]

MetaGetDefault(scn, attr, value) == <<value>>

\* metadata.get(key): <<value>>, or <<>> for None
MetaGet(scn, attr, value) == IF attr \in scn.present THEN <<value>> ELSE <<>>

\* float(x) raises TypeError on None
FloatFails(opt) == opt = <<>>

\* The band whose scene the file of this name holds
BandOf(name) == CHOOSE b \in Bands : ChanTag(b) = name.chan

\* gdal.Open(f'NETCDF:{input}/{file_name}.nc:' + var) finds a file
Opens(fs, file_name) ==
    /\ file_name.kind = "str"
    /\ file_name.val \in DOMAIN fs
    /\ fs[file_name.val] # "none"

CalibrateNoK(x, scale, offset, k) == x * scale + offset

\* (ds * scale + offset) + k
Calibrate(x, scale, offset, k) == (x * scale + offset) + k

\* img.ReadAsArray(0, 0, img.RasterXSize, img.RasterYSize): rows x columns
ReadAsArray(scn) == scn.raw

\* The whole of get_ds(input, file_name, var, k) on the local files fs, where
\* scn[b] is the content of band b's scene file.
get_ds(fs, scn, file_name, k) ==
    IF ~Opens(fs, file_name)
    THEN [status |-> "AttributeError"]
    ELSE LET s == scn[BandOf(file_name.val)]
             scale == MetaGet(s, "scale_factor", s.scale)
             offset == MetaGet(s, "add_offset", s.offset)
             undef == MetaGet(s, "_FillValue", s.fill)
             dtime == MetaGet(s, "time_coverage_start", s.time)
             raw == ReadAsArray(s)
         IN IF FloatFails(scale) \/ FloatFails(offset) \/ FloatFails(undef)
            THEN [status |-> "TypeError"]
            ELSE [status |-> "ok",
                  dtime |-> dtime,
                  img |-> [file |-> file_name.val,
                           RasterXSize |-> s.raw.shape[2],
                           RasterYSize |-> s.raw.shape[1]],
                  undef |-> undef[1],
                  ds |-> [shape |-> raw.shape,
                          at |-> [p \in Cells(raw.shape) |->
                                    Calibrate(raw.at[p], scale[1], offset[1], k)]]]

\* One call Utilities.get_ds('input', file_name, 'CMI', k)
Read ==
    /\ rd.status = "none"
    /\ rd' = get_ds(files, scene, rdarg.file_name, rdarg.k)
    /\ UNCHANGED <<fetchVars, scene, rdarg, projVars, pipeVars>>

-----------------------------------------------------------------------------
(* Reprojector: Utilities.proj_ret *)

\* xRes = yRes = 0.02 degree, in hundredths of a degree
CellSize == 2

Abs(x) == IF x < 0 THEN 0 - x ELSE x
Min(a, b) == IF a <= b THEN a ELSE b
Max(a, b) == IF a >= b THEN a ELSE b

\* driver.Create('raw', ds.shape[0], ds.shape[1], 1, gdal.GDT_Float32):
\* the second and third arguments are the raster's x size and y size
RawSize(ds) == [XSize |-> ds.shape[1], YSize |-> ds.shape[2]]

\* raw.GetRasterBand(1).WriteArray(ds) raises ValueError when the array, which
\* is shape[1] columns wide and shape[0] rows high, exceeds the band
WriteArrayFails(ds, raw) == ds.shape[2] > raw.XSize \/ ds.shape[1] > raw.YSize

\* outputBounds = (extent[0], extent[3], extent[2], extent[1])
OutputBounds(extent) == <<extent[1], extent[4], extent[3], extent[2]>>

\* gdal.Warp onto the grid that outputBounds = (minX, minY, maxX, maxY) and
\* xRes = yRes = CellSize fix: the columns start at minX, the lines at maxY and
\* run towards minY; no grid is written when it would have no column or line
Warp(bounds) ==
    LET minX == bounds[1]
        minY == bounds[2]
        maxX == bounds[3]
        maxY == bounds[4]
        nPixels == (maxX - minX + CellSize \div 2) \div CellSize
        nLines == (Abs(maxY - minY) + CellSize \div 2) \div CellSize
        yStep == IF maxY > minY THEN 0 - CellSize ELSE CellSize
        yEnd == maxY + nLines * yStep
    IN IF nPixels <= 0 \/ nLines <= 0
       THEN [written |-> FALSE]
       ELSE [written |-> TRUE, nPixels |-> nPixels, nLines |-> nLines,
             lon |-> <<minX, minX + nPixels * CellSize>>,
             lat |-> <<Min(maxY, yEnd), Max(maxY, yEnd)>>]

\* The whole of proj_ret(img, undef, ds, extent, file_name)
proj_ret(img, undef, ds, extent, file_name) ==
    LET raw == RawSize(ds)
    IN IF WriteArrayFails(ds, raw)
       THEN [status |-> "ValueError", raw |-> raw]
       ELSE [status |-> "ok", raw |-> raw,
             geoT |-> img.file,
             outputBounds |-> OutputBounds(extent),
             srcNodata |-> undef,
             out |-> <<file_name, "_ret.nc">>,
             grid |-> Warp(OutputBounds(extent))]

\* One call Utilities.proj_ret(img, undef, ds, extent, file_name)
Project ==
    /\ pr.status = "none"
    /\ pr' = proj_ret(parg.img, parg.undef, parg.ds, parg.extent, parg.file_name)
    /\ UNCHANGED <<fetchVars, readVars, parg, pipeVars>>

-----------------------------------------------------------------------------
(* Renderer: Utilities.plot_map *)

\* The whole of plot_map(dtime, file_name, extent, properties), as far as it
\* can fail: Dataset(f'{file_name}_ret.nc') needs the reprojected grid, and
\* datetime.strptime(dtime, ...) a string
plot_map(dtime, grid) ==
    IF ~grid.written THEN [status |-> "FileNotFoundError"]
    ELSE IF dtime = <<>> THEN [status |-> "TypeError"]
    ELSE [status |-> "ok"]

-----------------------------------------------------------------------------
(* The scripts fog_product.py and plot_map.py *)

Scripts == {"fog_product", "plot_map"}

\* extent = [-60.0, -35.0, -45.0, -25.0]
Extent == <<-6000, -3500, -4500, -2500>>

BandOrderReversed == <<7, 13>>

\* for band in [13, 7]
BandOrder == <<13, 7>>

\* The bands a script reads, in order
ScriptBands(script) == IF script = "fog_product" THEN BandOrder ELSE <<7>>

\* The correction k a script passes to get_ds: 0, or -273.15 (Kelvin to Celsius)
ScriptK(script) == IF script = "fog_product" THEN 0 ELSE -273

\* numpy broadcasting of two 2D shapes
Broadcastable(a, b) ==
    \A d \in 1..2 : a.shape[d] = b.shape[d] \/ a.shape[d] = 1 \/ b.shape[d] = 1

BroadcastAt(g, p) ==
    g.at[<<IF g.shape[1] = 1 THEN 1 ELSE p[1], IF g.shape[2] = 1 THEN 1 ELSE p[2]>>]

SubtractSwapped(a, b) ==
    LET shape == <<Max(a.shape[1], b.shape[1]), Max(a.shape[2], b.shape[2])>>
    IN [shape |-> shape,
        at |-> [p \in Cells(shape) |-> BroadcastAt(b, p) - BroadcastAt(a, p)]]

\* a - b on numpy arrays
Subtract(a, b) ==
    LET shape == <<Max(a.shape[1], b.shape[1]), Max(a.shape[2], b.shape[2])>>
    IN [shape |-> shape,
        at |-> [p \in Cells(shape) |-> BroadcastAt(a, p) - BroadcastAt(b, p)]]

\* file_name.replace('C07', 'BTD')
ReplaceC07(name) ==
    IF name.chan = ChanTag(7) THEN [name EXCEPT !.chan = <<"B", "T", "D">>] ELSE name

NoName == [kind |-> "none", val |-> 0]
NoImg == [file |-> [chan |-> <<"C", 0, 0>>, start |-> 0],
          RasterXSize |-> 0, RasterYSize |-> 0]
NoPy == [script |-> "none", i |-> 0, file_name |-> NoName, dtime |-> <<>>,
         img |-> NoImg, undef |-> 0, ds |-> NoGrid, ds_13 |-> NoGrid,
         out |-> <<>>, exc |-> "none"]
NoArgs == [img |-> NoImg, undef |-> 0, ds |-> NoGrid, extent |-> Extent,
           file_name |-> <<>>]

\* os.makedirs(input, exist_ok=True); os.makedirs(output, exist_ok=True)
StepMakedirs ==
    /\ pc = "start"
    /\ dirs' = dirs \cup {"input", "output"}
    /\ pc' = "fetch"
    /\ UNCHANGED <<bucket, files, listCalls, transfers, last, rets, ncalls,
                   readVars, projVars, py>>

\* file_name = Utilities.download_CMI(yyyymmddhhmn, band, input)
StepFetch ==
    /\ pc = "fetch"
    /\ Fetch(ScriptBands(py.script)[py.i])
    /\ py' = [py EXCEPT !.file_name = last'.ret]
    /\ pc' = "read"
    /\ UNCHANGED <<readVars, projVars>>

\* dtime, img, undef, ds = Utilities.get_ds(input, file_name, var, k), then
\* "if band == 13: ds_13 = ds" and the end of the loop body
StepRead ==
    /\ pc = "read"
    /\ LET band == ScriptBands(py.script)[py.i]
           r == get_ds(files, scene, py.file_name, ScriptK(py.script))
       IN /\ rd' = r
          /\ rdarg' = [file_name |-> py.file_name, k |-> ScriptK(py.script)]
          /\ IF r.status # "ok"
             THEN /\ pc' = "crashed"
                  /\ py' = [py EXCEPT !.exc = r.status]
             ELSE /\ py' = [py EXCEPT !.dtime = r.dtime, !.img = r.img,
                                      !.undef = r.undef, !.ds = r.ds,
                                      !.ds_13 = IF py.script = "fog_product" /\ band = 13
                                                THEN r.ds ELSE @,
                                      !.i = IF @ < Len(ScriptBands(py.script))
                                            THEN @ + 1 ELSE @]
                  /\ pc' = IF py.i < Len(ScriptBands(py.script)) THEN "fetch"
                           ELSE IF py.script = "fog_product" THEN "combine"
                           ELSE "project"
    /\ UNCHANGED <<fetchVars, scene, projVars>>

\* ds = ds_13 - ds
StepCombine ==
    /\ pc = "combine"
    /\ IF Broadcastable(py.ds_13, py.ds)
       THEN /\ py' = [py EXCEPT !.ds = Subtract(py.ds_13, py.ds)]
            /\ pc' = "project"
       ELSE /\ py' = [py EXCEPT !.exc = "ValueError"]
            /\ pc' = "crashed"
    /\ UNCHANGED <<fetchVars, readVars, projVars>>

\* file_name = f"{output}/{file_name...}" and
\* Utilities.proj_ret(img, undef, ds, extent, file_name)
StepProject ==
    /\ pc = "project"
    /\ LET name == IF py.script = "fog_product"
                   THEN <<"output", ReplaceC07(py.file_name.val)>>
                   ELSE <<"output", py.file_name.val>>
           r == proj_ret(py.img, py.undef, py.ds, Extent, name)
       IN /\ parg' = [img |-> py.img, undef |-> py.undef, ds |-> py.ds,
                      extent |-> Extent, file_name |-> name]
          /\ pr' = r
          /\ IF r.status # "ok"
             THEN /\ pc' = "crashed"
                  /\ py' = [py EXCEPT !.exc = r.status]
             ELSE /\ pc' = "plot"
                  /\ py' = [py EXCEPT !.out = name]
    /\ UNCHANGED <<fetchVars, readVars>>

\* Utilities.plot_map(dtime, file_name, extent, properties)
StepPlot ==
    /\ pc = "plot"
    /\ LET r == plot_map(py.dtime, pr.grid)
       IN IF r.status # "ok"
          THEN /\ pc' = "crashed"
               /\ py' = [py EXCEPT !.exc = r.status]
          ELSE /\ pc' = "done"
               /\ py' = py
    /\ UNCHANGED <<fetchVars, readVars, projVars>>

-----------------------------------------------------------------------------
(* Specifications *)

AllMeta == MetaAttrs

DefaultScene ==
    [present |-> AllMeta, scale |-> 1, offset |-> 0, fill |-> -1,
     time |-> "2021-07-07T10:00:20.5Z",
     raw |-> [shape |-> <<1, 1>>, at |-> [p \in Cells(<<1, 1>>) |-> 0]]]

FetchIdle ==
    /\ bucket = {}
    /\ files = [n \in FileNames |-> "none"]
    /\ dirs = {}
    /\ listCalls = 0
    /\ transfers = [o \in Objects |-> 0]
    /\ last = NoCall
    /\ rets = [b \in Bands |-> {}]
    /\ ncalls = 0

ReadIdle ==
    /\ scene = [b \in Bands |-> DefaultScene]
    /\ rdarg = [file_name |-> NoName, k |-> 0]
    /\ rd = [status |-> "idle"]

ProjIdle ==
    /\ parg = NoArgs
    /\ pr = [status |-> "idle"]

PipeIdle ==
    /\ pc = "idle"
    /\ py = NoPy

\* Repeated calls of download_CMI against any bucket and any input directory
InitFetch ==
    /\ bucket \in SUBSET Objects
    /\ files \in [FileNames -> {"none", "old"}]
    /\ dirs \in SUBSET {"input"}
    /\ (\E n \in FileNames : files[n] # "none") => "input" \in dirs
    /\ listCalls = 0
    /\ transfers = [o \in Objects |-> 0]
    /\ last = NoCall
    /\ rets = [b \in Bands |-> {}]
    /\ ncalls = 0
    /\ ReadIdle /\ ProjIdle /\ PipeIdle

NextFetch == \E band \in Bands : Download(band)

SpecFetch == InitFetch /\ [][NextFetch]_vars

\* One call of get_ds on any scene file of band 13, present or not
InitRead ==
    /\ bucket = {}
    /\ \E st \in {"none", "new"} :
          files = [n \in FileNames |-> IF n = FileName(Key(13, 1)) THEN st ELSE "none"]
    /\ dirs = {"input"}
    /\ listCalls = 0
    /\ transfers = [o \in Objects |-> 0]
    /\ last = NoCall
    /\ rets = [b \in Bands |-> {}]
    /\ ncalls = 0
    /\ \E s \in Scenes(MaxCells, SUBSET MetaAttrs, ScaleVals, OffsetVals, {-1}) :
          scene = [b \in Bands |-> IF b = 13 THEN s ELSE DefaultScene]
    /\ rdarg \in [file_name : {[kind |-> "str", val |-> FileName(Key(13, 1))],
                               [kind |-> "int", val |-> Sentinel]},
                  k : KVals]
    /\ rd = [status |-> "none"]
    /\ ProjIdle /\ PipeIdle

NextRead == Read

SpecRead == InitRead /\ [][NextRead]_vars

\* The array whose element at row r, column c is 10 r + c
IndexGrid(shape) == [shape |-> shape, at |-> [p \in Cells(shape) |-> 10 * p[1] + p[2]]]

Coords == {-6000, -4500, -3500, -2501, -2500}

\* One call of proj_ret on any array shape and any box
InitProj ==
    /\ FetchIdle /\ ReadIdle /\ PipeIdle
    /\ parg \in [img : {[file |-> FileName(Key(7, 1)), RasterXSize |-> 1, RasterYSize |-> 1]},
                 undef : {-1},
                 ds : {IndexGrid(s) : s \in Shapes(MaxCells)},
                 extent : Coords \X Coords \X Coords \X Coords,
                 file_name : {<<"output", FileName(Key(7, 1))>>}]
    /\ pr = [status |-> "none"]

NextProj == Project

SpecProj == InitProj /\ [][NextProj]_vars

PipeObjects == {Key(13, 1), Key(7, 1)}

\* One run of either script
Init ==
    /\ bucket \in SUBSET PipeObjects
    /\ \E st \in {"none", "old"} : files = [n \in FileNames |-> st]
    /\ dirs = {}
    /\ listCalls = 0
    /\ transfers = [o \in Objects |-> 0]
    /\ last = NoCall
    /\ rets = [b \in Bands |-> {}]
    /\ ncalls = 0
    /\ \E s13 \in Scenes(MaxPipeCells, {AllMeta}, {1, 2}, {5}, {-1}),
          s7 \in Scenes(MaxPipeCells,
                        {AllMeta, AllMeta \ {"time_coverage_start"},
                         AllMeta \ {"_FillValue"}},
                        {1}, {5}, {-1, 9}) :
          scene = [b \in Bands |-> IF b = 13 THEN s13 ELSE s7]
    /\ rdarg = [file_name |-> NoName, k |-> 0]
    /\ rd = [status |-> "idle"]
    /\ ProjIdle
    /\ pc = "start"
    /\ \E script \in Scripts : py = [NoPy EXCEPT !.script = script, !.i = 1]

Next == StepMakedirs \/ StepFetch \/ StepRead \/ StepCombine \/ StepProject \/ StepPlot

Spec == Init /\ [][Next]_vars

-----------------------------------------------------------------------------
(* Properties of the Fetcher, under SpecFetch *)

Called == last.band # 0

\* The listing the most recent call received
LastListing == Listing(bucket, last.band)

\* Every listed scene file was on disk when the most recent call began
WasLocal ==
    /\ LastListing # <<>>
    /\ \A i \in 1..Len(LastListing) : last.pre[FileName(LastListing[i])] # "none"

\* C2: over any sequence of download_CMI calls for the same (timestamp, band,
\* destination) against an unchanged bucket, each object is transferred at most
\* once in total; a call that finds an object's local file performs no transfer
\* of it and leaves the file as it was; and all calls for a band return the
\* same value.
C2_TransferAtMostOnce ==
    /\ \A o \in Objects : transfers[o] <= 1
    /\ Called =>
          \A i \in 1..Len(LastListing) :
             LET name == FileName(LastListing[i])
             IN last.pre[name] # "none" =>
                   /\ LastListing[i] \notin Range(last.moved)
                   /\ files[name] = last.pre[name]
    /\ \A b \in Bands : Cardinality(rets[b]) <= 1

\* A later call for a band found on disk the file an earlier call transferred
C2_Witness ==
    /\ ncalls >= 2
    /\ Called
    /\ LastListing # <<>>
    /\ last.moved = <<>>
    /\ \E i \in 1..Len(LastListing) :
          /\ transfers[LastListing[i]] = 1
          /\ files[FileName(LastListing[i])] = "new"
    /\ last.ret.kind = "str"

\* C3: when the listing for the requested prefix holds no object, download_CMI
\* prints its diagnostic, returns the sentinel -1 without raising, transfers
\* nothing and leaves the destination directory's files as they were.
C3_NotFoundSentinel ==
    (Called /\ LastListing = <<>>) =>
        /\ last.ret = [kind |-> "int", val |-> -1]
        /\ last.printed = << <<"No files found", last.band>> >>
        /\ last.moved = <<>>
        /\ files = last.pre

\* A call was made for a band the bucket holds no object of
C3_Witness ==
    /\ Called
    /\ LastListing = <<>>
    /\ \E o \in bucket : ~Matches(o, Prefix(last.band))

\* C8 as stated: a call made when the scene file is already on disk makes no
\* network call at all, neither a listing request nor a transfer.
C8_NoNetworkWhenLocal ==
    (Called /\ WasLocal) => (last.lists = 0 /\ last.moved = <<>>)

\* C8 amended: a call made when the scene file is already on disk transfers
\* nothing, and sends exactly one bucket listing request.
C8_OneListingNoTransferWhenLocal ==
    /\ (Called /\ WasLocal) => (last.lists = 1 /\ last.moved = <<>>)
    /\ listCalls = ncalls

\* A call was made with the scene file already on disk
C8_Witness ==
    /\ Called
    /\ WasLocal
    /\ last.ret.kind = "str"
    /\ listCalls >= 1

-----------------------------------------------------------------------------
(* Properties of the Reader/Calibrator, under SpecRead *)

ReadScene == scene[13]

ReadDone == rd.status # "none" /\ Opens(files, rdarg.file_name)

CalibrationAttrs == {"scale_factor", "add_offset", "_FillValue"}

\* C4 as stated: get_ds fails, returning nothing, whenever any of the four
\* metadata fields is absent from the file.
C4_FailsOnAnyAbsentField ==
    (ReadDone /\ ReadScene.present # MetaAttrs) => rd.status # "ok"

\* C4 amended: get_ds fails with an unhandled error exactly when one of the
\* three calibration fields (scale_factor, add_offset, _FillValue) is absent;
\* when only NC_GLOBAL#time_coverage_start is absent it returns normally, with
\* None as the timestamp.
C4_FailsOnAbsentCalibrationField ==
    ReadDone =>
        /\ (rd.status = "TypeError") <=> ~(CalibrationAttrs \subseteq ReadScene.present)
        /\ (rd.status = "ok") <=> (CalibrationAttrs \subseteq ReadScene.present)
        /\ (rd.status = "ok" /\ "time_coverage_start" \notin ReadScene.present)
              => rd.dtime = <<>>
        /\ (rd.status = "ok" /\ "time_coverage_start" \in ReadScene.present)
              => rd.dtime = <<ReadScene.time>>

\* get_ds failed on a file that lacks exactly one calibration field
C4_Witness ==
    /\ ReadDone
    /\ rd.status = "TypeError"
    /\ Cardinality(MetaAttrs \ ReadScene.present) = 1

\* C7: every element of the grid get_ds returns is x*s + o + k for the raw
\* sample x at the same index, and for s > 0 the result is non-decreasing in x.
C7_CalibrationAffineMonotone ==
    rd.status = "ok" =>
        LET raw == ReadScene.raw
            s == ReadScene.scale
            o == ReadScene.offset
        IN /\ rd.ds.shape = raw.shape
           /\ \A p \in Cells(raw.shape) : rd.ds.at[p] = raw.at[p] * s + o + rdarg.k
           /\ s > 0 =>
                 \A p, q \in Cells(raw.shape) :
                    raw.at[p] <= raw.at[q] => rd.ds.at[p] <= rd.ds.at[q]

\* get_ds calibrated, with a positive scale and a non-zero correction, a grid
\* that holds two different raw samples
C7_Witness ==
    /\ rd.status = "ok"
    /\ ReadScene.scale > 0
    /\ rdarg.k # 0
    /\ \E p, q \in Cells(ReadScene.raw.shape) : ReadScene.raw.at[p] < ReadScene.raw.at[q]

-----------------------------------------------------------------------------
(* Properties of the Reprojector, under SpecProj *)

\* The caller's box is in the documented order [min-lon, max-lon, min-lat, max-lat]
DocumentedBox == parg.extent[1] < parg.extent[2] /\ parg.extent[3] < parg.extent[4]

\* C1 as stated: the outputBounds handed to the warp are
\* (extent[0], extent[3], extent[1], extent[2]) of the caller's box.
C1_OutputBoundsOfDocumentedBox ==
    (pr.status = "ok" /\ DocumentedBox) =>
        pr.outputBounds =
            <<parg.extent[1], parg.extent[4], parg.extent[2], parg.extent[3]>>

\* C9 as stated: the longitude and latitude ranges of the written grid equal
\* the requested [min-lon, max-lon] and [min-lat, max-lat] to within one cell
\* on each edge.
C9_ExtentRoundTrip ==
    (pr.status = "ok" /\ DocumentedBox) =>
        /\ pr.grid.written
        /\ Abs(pr.grid.lon[1] - parg.extent[1]) <= CellSize
        /\ Abs(pr.grid.lon[2] - parg.extent[2]) <= CellSize
        /\ Abs(pr.grid.lat[1] - parg.extent[3]) <= CellSize
        /\ Abs(pr.grid.lat[2] - parg.extent[4]) <= CellSize

\* C10 as stated: the in-memory raster created for an array of R rows and C
\* columns is C wide and R high, so the array fits it exactly.
C10_RawRasterFitsArray ==
    pr.status \in {"ok", "ValueError"} =>
        /\ pr.raw.XSize = parg.ds.shape[2]
        /\ pr.raw.YSize = parg.ds.shape[1]
        /\ pr.status = "ok"

-----------------------------------------------------------------------------
(* Properties of fog_product.py, under Spec *)

\* proj_ret has been called by fog_product.py
FogProjected == py.script = "fog_product" /\ pr.status # "idle"

\* What get_ds returns for the scene file of a band whose metadata is complete
ImgOf(band) ==
    [file |-> FileName(Key(band, 1)),
     RasterXSize |-> scene[band].raw.shape[2],
     RasterYSize |-> scene[band].raw.shape[1]]

CalibratedAt(band, p) ==
    scene[band].raw.at[p] * scene[band].scale + scene[band].offset

\* C5 as stated: the fill value and the raster handle passed to proj_ret with
\* the difference grid are those read from band 13.
C5_ProjGetsBand13Handle ==
    FogProjected => (parg.img = ImgOf(13) /\ parg.undef = scene[13].fill)

\* C5 amended: the fill value and the raster handle passed to proj_ret with
\* the difference grid are those read from band 7, the second input of the
\* subtraction and the last band the loop reads.
C5_ProjGetsBand7Handle ==
    FogProjected => (parg.img = ImgOf(7) /\ parg.undef = scene[7].fill)

\* proj_ret ran in fog_product.py on two scenes whose fill values differ
C5_Witness ==
    /\ FogProjected
    /\ pr.status = "ok"
    /\ scene[7].fill # scene[13].fill

====
